---- MODULE Spec2Model ----
(***************************************************************************)
(* ArchWebBlocker (backend/archblocker.py): the registry kept in           *)
(* config.json, the daily pause quota, the window predicate and the        *)
(* rewriting of the managed section of /etc/hosts, by the request handlers *)
(* and by the background loop.                                             *)
(*                                                                         *)
(* Time is counted in whole minutes since 00:00 of day 0 (a naive local    *)
(* datetime); a calendar date is the day number, a pause_until timestamp   *)
(* the minute it names.  A file is the sequence of its tokens: a text      *)
(* without line break, or the line break "\n".                             *)
(***************************************************************************)
EXTENDS Integers, Sequences, FiniteSets, TLC

\* ------------------------------------------------------------ constants

MAX_DAILY_PAUSES == 2
MAX_DAILY_PAUSE_MINUTES == 15

MinutesPerHour == 60
MinutesPerDay == 24 * MinutesPerHour

\* ------------------------------------------------------------ bounds

\* The longest registry a request may grow.
MaxWebsites == 2
\* Requests and passes of the background loop begun in one threaded run.
MaxRequests == 2
\* The longest HOSTS_FILE, in tokens, a reconciliation of the model writes.
MaxFileLen == 13
\* The window model samples every MinuteStride-th minute of the day.
MinuteStride == 97

\* ------------------------------------------------------------ inputs

Urls == {"a", "b"}
\* The instants the clock shows: 10:00, 10:05 and 22:00 of day 0, 10:00 of
\* day 1.
InitialTime == 10 * MinutesPerHour
Instants == {InitialTime, InitialTime + 5, 22 * MinutesPerHour,
             MinutesPerDay + InitialTime}
\* The 'duration' field of a pause request.
PauseDurations == {-5, 0, 5, 10}
RootUid == 0

\* ------------------------------------------------------------ dicts

Get(d, k, default) == IF k \in DOMAIN d THEN d[k] ELSE default
Put(d, k, v) == [x \in (DOMAIN d) \cup {k} |-> IF x = k THEN v ELSE d[x]]
EmptyDict == [x \in {} |-> 0]

\* ------------------------------------------------------------ time of day

\* "HH:MM" as the four digits the code keeps after replace(':', '').
TimeStr(m) ==
  LET h == m \div MinutesPerHour
      mi == m % MinutesPerHour
  IN <<h \div 10, h % 10, mi \div 10, mi % 10>>

\* int() of a digit string.
ParseInt(ds) == ds[1] * 1000 + ds[2] * 100 + ds[3] * 10 + ds[4]

\* int(current.strftime('%H%M'))
strftime_HM(now) == ParseInt(TimeStr(now % MinutesPerDay))

\* datetime.now().date().isoformat(), as the day number
date_of(now) == now \div MinutesPerDay

\* ------------------------------------------------------------ registry

EmptyConfig == [websites |-> <<>>, pauses |-> EmptyDict]

Website(u, en, s, e) ==
  [url |-> u, enabled |-> en, startTime |-> TimeStr(s), endTime |-> TimeStr(e)]

\* A pause entry holding one granted pause of dur minutes at time t.
PauseEntry(t, dur) ==
  [pause_until |-> t + dur,
   daily_count |-> Put(EmptyDict, date_of(t), 1),
   daily_minutes |-> Put(EmptyDict, date_of(t), dur)]

\* The comparisons of check_block_needed on the HHMM integers (faulty variant:
\* the upper end of the window left out).
window_test_exclusive(start_time, end_time, current_time) ==
  IF start_time <= end_time
  THEN start_time <= current_time /\ current_time < end_time
  ELSE current_time >= start_time \/ current_time < end_time

window_test(start_time, end_time, current_time) ==
  IF start_time <= end_time
  THEN start_time <= current_time /\ current_time <= end_time
  ELSE current_time >= start_time \/ current_time <= end_time

\* The pause test of check_block_needed (faulty variant: the pause never expires).
is_paused_forever(config, url, now) ==
  url \in DOMAIN config.pauses

is_paused(config, url, now) ==
  /\ url \in DOMAIN config.pauses
  /\ now < config.pauses[url].pause_until

\* check_block_needed(website), with the registry it loads and the time it reads.
check_block_needed(website, config, now) ==
  IF is_paused(config, website.url, now) THEN FALSE
  ELSE IF website.enabled
       THEN window_test(ParseInt(website.startTime), ParseInt(website.endTime),
                        strftime_HM(now))
       ELSE FALSE

\* Faulty variant of can_pause_website: the counters of earlier dates count
\* against the request too.
can_pause_website_no_reset(config, url, now) ==
  LET website_pauses == Get(config.pauses, url,
                            [pause_until |-> 0, daily_count |-> EmptyDict,
                             daily_minutes |-> EmptyDict])
  IN /\ \A d \in DOMAIN website_pauses.daily_count :
          website_pauses.daily_count[d] < MAX_DAILY_PAUSES
     /\ \A d \in DOMAIN website_pauses.daily_minutes :
          website_pauses.daily_minutes[d] < MAX_DAILY_PAUSE_MINUTES

\* can_pause_website(url), with the registry it loads and the time it reads.
can_pause_website(config, url, now) ==
  LET website_pauses == Get(config.pauses, url,
                            [pause_until |-> 0, daily_count |-> EmptyDict,
                             daily_minutes |-> EmptyDict])
      today == date_of(now)
      pause_count == Get(website_pauses.daily_count, today, 0)
      total_minutes == Get(website_pauses.daily_minutes, today, 0)
  IN pause_count < MAX_DAILY_PAUSES /\ total_minutes < MAX_DAILY_PAUSE_MINUTES

\* Lines 243-257 of pause_website: the registry with the pause registered.
register_pause(config, url, duration_minutes, current_time) ==
  LET today == date_of(current_time)
      old == Get(config.pauses, url,
                 [pause_until |-> 0, daily_count |-> EmptyDict,
                  daily_minutes |-> EmptyDict])
      new == [pause_until |-> current_time + duration_minutes,
              daily_count |-> Put(old.daily_count, today,
                                  Get(old.daily_count, today, 0) + 1),
              daily_minutes |-> Put(old.daily_minutes, today,
                                    Get(old.daily_minutes, today, 0)
                                      + duration_minutes)]
  IN [config EXCEPT !.pauses = Put(config.pauses, url, new)]

\* config['websites'].append(website)
append_website(config, website) ==
  [config EXCEPT !.websites = Append(config.websites, website)]

\* [w for w in config['websites'] if w['url'] != url]
drop_website(config, url) ==
  [config EXCEPT !.websites = SelectSeq(config.websites, LAMBDA w : w.url # url)]

\* ------------------------------------------------------------ /etc/hosts

NL == [k |-> "nl", s |-> ""]
Text(s) == [k |-> "text", s |-> s]
\* '0.0.0.0 <url>' and '0.0.0.0 www.<url>'
BareEntry(url) == [k |-> "bare", s |-> url]
WwwEntry(url) == [k |-> "www", s |-> url]

START_MARK == "## ARCHBLOCKER START"
END_MARK == "## ARCHBLOCKER END"

\* marker in line: the line holds a text with the marker in it.  The texts
\* of the model are atoms, so a text holds a marker only by being it.
marker_in(marker, line) ==
  \E i \in 1..Len(line) : line[i].k = "text" /\ line[i].s = marker

RECURSIVE Flatten(_)
\* f.writelines(chunks): the chunks one after the other
Flatten(chunks) ==
  IF chunks = <<>> THEN <<>> ELSE Head(chunks) \o Flatten(Tail(chunks))

RECURSIVE SplitLines(_, _)
\* f.readlines(): the content cut after every line break, the line breaks
\* kept; a last line without line break is a line too.
SplitLines(content, cur) ==
  IF content = <<>>
  THEN IF cur = <<>> THEN <<>> ELSE <<cur>>
  ELSE IF Head(content) = NL
       THEN <<Append(cur, NL)>> \o SplitLines(Tail(content), <<>>)
       ELSE SplitLines(Tail(content), Append(cur, Head(content)))

readlines(content) == SplitLines(content, <<>>)

RECURSIVE strip_from(_, _)
\* Lines 143-153: the loop that drops the marker lines and what is between.
strip_from(hosts_content, in_block) ==
  IF hosts_content = <<>> THEN <<>>
  ELSE LET line == Head(hosts_content)
           rest == Tail(hosts_content)
       IN IF marker_in(START_MARK, line) THEN strip_from(rest, TRUE)
          ELSE IF marker_in(END_MARK, line) THEN strip_from(rest, FALSE)
          ELSE IF ~in_block THEN <<line>> \o strip_from(rest, in_block)
          ELSE strip_from(rest, in_block)

strip_managed(hosts_content) == strip_from(hosts_content, FALSE)

RECURSIVE build_blocks(_, _, _)
\* Lines 155-161: two entries for every site check_block_needed says to block.
build_blocks(websites, config, now) ==
  IF websites = <<>> THEN <<>>
  ELSE LET site == Head(websites)
           rest == build_blocks(Tail(websites), config, now)
       IN IF check_block_needed(site, config, now)
          THEN << <<BareEntry(site.url), NL>>, <<WwwEntry(site.url), NL>> >> \o rest
          ELSE rest

\* new_content.append('\n## ARCHBLOCKER START\n')
section_open == << <<NL, Text(START_MARK), NL>> >>

\* new_content.append('## ARCHBLOCKER END\n')
section_close == << <<Text(END_MARK), NL>> >>

\* Faulty variant of the assembly: the section written also when nothing is blocked.
assemble_always(new_content, blocks) ==
  new_content \o section_open \o blocks \o section_close

\* Lines 163-166
assemble(new_content, blocks) ==
  IF blocks # <<>>
  THEN new_content \o section_open \o blocks \o section_close
  ELSE new_content

\* Lines 140-166: what update_hosts_file writes, from what it read.
new_hosts(content, websites, config, now) ==
  Flatten(assemble(strip_managed(readlines(content)),
                   build_blocks(websites, config, now)))

\* How a call of update_hosts_file may go.
Outcomes == {"ok", "chattr_minus_fails", "raises", "chattr_plus_fails"}

\* Faulty variant of update_hosts_file: the file written whatever the uid and
\* whatever chattr -i answered.
update_hosts_file_unguarded(websites, config, now, file, uid, outcome) ==
  IF outcome = "raises"
  THEN [ok |-> FALSE, content |-> file.content, immutable |-> FALSE]
  ELSE [ok |-> outcome = "ok" /\ uid = RootUid,
        content |-> new_hosts(file.content, websites, config, now),
        immutable |-> outcome = "ok" /\ uid = RootUid]

\* update_hosts_file(websites) run alone: the file, its immutable flag and
\* the value returned.
update_hosts_file(websites, config, now, file, uid, outcome) ==
  IF uid # RootUid \/ outcome = "chattr_minus_fails"
  THEN [ok |-> FALSE, content |-> file.content, immutable |-> file.immutable]
  ELSE IF outcome = "raises"
  THEN [ok |-> FALSE, content |-> file.content, immutable |-> FALSE]
  ELSE [ok |-> outcome = "ok",
        content |-> new_hosts(file.content, websites, config, now),
        immutable |-> outcome = "ok"]

\* ------------------------------------------------------------ state

VARIABLES
  now,          \* the clock: datetime.now(), in minutes
  config_file,  \* CONFIG_FILE: [torn, data]; torn while a writer has it open
  hosts,        \* HOSTS_FILE: [content, immutable]
  euid,         \* os.geteuid() of the process
  pc,           \* where each thread is
  loc,          \* the local variables of each thread
  crashed,      \* the process was killed
  served,       \* requests and passes of the loop begun so far (threaded model)
  last,         \* history: what the last step did
  hosts0,       \* history: the content of HOSTS_FILE at the start
  granted,      \* history: pauses granted, by url and date
  begun,        \* history: the add and remove requests begun (threaded model)
  acked,        \* history: those answered with success (threaded model)
  tick          \* history: flips when the background loop begins a pass
                \* (model of the loop alone)

vars == <<now, config_file, hosts, euid, pc, loc, crashed, served,
          last, hosts0, granted, begun, acked, tick>>

Threads == {"timer", "h1", "h2"}
Handlers == {"h1", "h2"}

IdleLoc == [op |-> "none", url |-> "", dur |-> 0, at |-> 0,
            config |-> EmptyConfig, websites |-> <<>>, new_content |-> <<>>]

\* load_config(): an empty registry when the file does not parse
load_config(file) == IF file.torn THEN EmptyConfig ELSE file.data

\* save_config(config), the file written whole
saved(config) == [torn |-> FALSE, data |-> config]

LOCALHOST == "127.0.0.1 localhost"
CUSTOM == "# custom"

\* Contents HOSTS_FILE may start with: foreign lines only, or a section of
\* an earlier run with a line a user added after it.
InitialHosts ==
  { <<Text(LOCALHOST), NL>>,
    <<Text(LOCALHOST), NL, Text(START_MARK), NL, BareEntry("a"), NL,
      WwwEntry("a"), NL, Text(END_MARK), NL, Text(CUSTOM), NL>> }

\* The websites a request may add.
NewWebsites ==
  { Website("a", TRUE, 9 * MinutesPerHour, 17 * MinutesPerHour),
    Website("a", FALSE, 9 * MinutesPerHour, 17 * MinutesPerHour) }

\* What a step did: by whom ("timer", "request" or "none"), whether it
\* called update_hosts_file, and whether that call returned True.
Step(by, called, ok) == [by |-> by, called |-> called, ok |-> ok]

InitCommon ==
  /\ pc = [t \in Threads |-> "idle"]
  /\ loc = [t \in Threads |-> IdleLoc]
  /\ crashed = FALSE
  /\ served = 0
  /\ last = Step("none", FALSE, FALSE)
  /\ granted = [u \in Urls |->
                  Get(config_file.data.pauses, u, [daily_count |-> EmptyDict]).daily_count]
  /\ begun = {}
  /\ acked = {}
  /\ tick = FALSE
  /\ hosts0 = hosts.content

\* ------------------------------------------------------------ one request at a time

InitSeq ==
  /\ now = InitialTime
  /\ config_file = saved(EmptyConfig)
  /\ hosts \in [content : InitialHosts, immutable : {FALSE}]
  /\ euid \in {RootUid, 1000}
  /\ InitCommon

threads_unchanged == UNCHANGED <<pc, loc, crashed, served, begun, acked, tick>>

\* The file after update_hosts_file, kept within the model's file length.
Reconciled(r) ==
  /\ Len(r.content) <= MaxFileLen
  /\ hosts' = [content |-> r.content, immutable |-> r.immutable]

\* POST /websites, lines 194-210
add_website(website, outcome) ==
  LET config == append_website(load_config(config_file), website)
      r == update_hosts_file(config.websites, config, now, hosts, euid, outcome)
  IN /\ Len(config.websites) <= MaxWebsites
     /\ config_file' = saved(config)
     /\ Reconciled(r)
     /\ last' = Step("request", TRUE, r.ok)
     /\ UNCHANGED <<now, euid, hosts0, granted>>
     /\ threads_unchanged

\* DELETE /websites/<url>, lines 213-222
remove_website(url, outcome) ==
  LET config == drop_website(load_config(config_file), url)
      r == update_hosts_file(config.websites, config, now, hosts, euid, outcome)
  IN /\ config_file' = saved(config)
     /\ Reconciled(r)
     /\ last' = Step("request", TRUE, r.ok)
     /\ UNCHANGED <<now, euid, hosts0, granted>>
     /\ threads_unchanged

\* POST /websites/<url>/pause, lines 225-271
pause_website(url, duration_minutes, outcome) ==
  IF duration_minutes <= 0 \/ ~can_pause_website(load_config(config_file), url, now)
  THEN /\ last' = Step("request", FALSE, FALSE)
       /\ UNCHANGED <<now, config_file, hosts, euid, hosts0, granted>>
       /\ threads_unchanged
  ELSE LET config == register_pause(load_config(config_file), url,
                                    duration_minutes, now)
           r == update_hosts_file(config.websites, config, now, hosts, euid,
                                  outcome)
       IN /\ config_file' = saved(config)
          /\ Reconciled(r)
          /\ last' = Step("request", TRUE, r.ok)
          /\ granted' = [granted EXCEPT ![url] =
                           Put(@, date_of(now), Get(@, date_of(now), 0) + 1)]
          /\ UNCHANGED <<now, euid, hosts0>>
          /\ threads_unchanged

\* One pass of the loop of run_blocker, lines 279-291
run_blocker(outcome) ==
  LET config == load_config(config_file)
      r == update_hosts_file(config.websites, config, now, hosts, euid, outcome)
  IN /\ IF config.websites = <<>>
        THEN /\ last' = Step("timer", FALSE, FALSE)
             /\ UNCHANGED hosts
        ELSE /\ Reconciled(r)
             /\ last' = Step("timer", TRUE, r.ok)
     /\ UNCHANGED <<now, config_file, euid, hosts0, granted>>
     /\ threads_unchanged

\* Time passes.
advance(t) ==
  /\ ~crashed
  /\ t > now
  /\ now' = t
  /\ last' = Step("none", FALSE, FALSE)
  /\ UNCHANGED <<config_file, hosts, euid, hosts0, granted>>
  /\ threads_unchanged

NextSeq ==
  \/ \E w \in NewWebsites, o \in Outcomes : add_website(w, o)
  \/ \E u \in Urls, o \in Outcomes : remove_website(u, o)
  \/ \E d \in {0, 5}, o \in Outcomes : pause_website("a", d, o)
  \/ \E o \in Outcomes : run_blocker(o)
  \/ \E t \in Instants : advance(t)

SpecSeq == InitSeq /\ [][NextSeq]_vars

\* ------------------------------------------------------------ threads

\* The background thread and the request threads run as the scheduler takes
\* them, a step being one access to the clock, to CONFIG_FILE or to
\* HOSTS_FILE with the computation that follows it.

\* The registry at the start of a threaded run: empty, or one target with a
\* pause granted at 09:00 that has run out.
InitialConfigs ==
  { EmptyConfig,
    [websites |-> <<Website("a", TRUE, 9 * MinutesPerHour, 17 * MinutesPerHour)>>,
     pauses |-> Put(EmptyDict, "a", PauseEntry(9 * MinutesPerHour, 5))] }

\* The websites the requests of a threaded run add.
ThreadWebsites ==
  { Website("a", TRUE, 9 * MinutesPerHour, 17 * MinutesPerHour),
    Website("b", TRUE, 22 * MinutesPerHour, 6 * MinutesPerHour) }

Init ==
  /\ now = InitialTime
  /\ config_file \in {saved(c) : c \in InitialConfigs}
  /\ hosts = [content |-> <<Text(LOCALHOST), NL>>, immutable |-> FALSE]
  /\ euid = RootUid
  /\ InitCommon

Goto(t, label) == pc' = [pc EXCEPT ![t] = label]

history_unchanged == UNCHANGED <<last, hosts0, tick>>

\* The end of a request or of a pass of the loop: the thread is free again,
\* and a successful add, remove or pause is recorded as answered.
finish(t) ==
  /\ Goto(t, "idle")
  /\ loc' = [loc EXCEPT ![t] = IdleLoc]
  /\ acked' = IF loc[t].op \in {"add", "remove"}
              THEN acked \cup {[op |-> loc[t].op, url |-> loc[t].url]}
              ELSE acked
  /\ granted' = IF loc[t].op = "pause"
                THEN [granted EXCEPT ![loc[t].url] =
                        Put(@, date_of(loc[t].at), Get(@, date_of(loc[t].at), 0) + 1)]
                ELSE granted

\* A request is served by the first request thread that is free.
FirstFree(t) ==
  /\ pc[t] = "idle"
  /\ \A u \in Handlers : pc[u] = "idle" => t = "h1" \/ u # "h1"

\* add_website, lines 199-204: the registry loaded and the website appended
add_load(t, website) ==
  /\ ~crashed /\ FirstFree(t) /\ served < MaxRequests
  /\ served' = served + 1
  /\ begun' = begun \cup {[op |-> "add", url |-> website.url]}
  /\ loc' = [loc EXCEPT ![t] =
               [IdleLoc EXCEPT !.op = "add", !.url = website.url,
                               !.config = append_website(load_config(config_file),
                                                         website)]]
  /\ Goto(t, "save")
  /\ UNCHANGED <<now, config_file, hosts, euid, crashed, granted, acked>>
  /\ history_unchanged

\* remove_website, lines 215-216
remove_load(t, url) ==
  /\ ~crashed /\ FirstFree(t) /\ served < MaxRequests
  /\ served' = served + 1
  /\ begun' = begun \cup {[op |-> "remove", url |-> url]}
  /\ loc' = [loc EXCEPT ![t] =
               [IdleLoc EXCEPT !.op = "remove", !.url = url,
                               !.config = drop_website(load_config(config_file), url)]]
  /\ Goto(t, "save")
  /\ UNCHANGED <<now, config_file, hosts, euid, crashed, granted, acked>>
  /\ history_unchanged

\* pause_website, lines 234-241: the duration and the quota checked
pause_check(t, url, duration_minutes) ==
  /\ ~crashed /\ FirstFree(t) /\ served < MaxRequests
  /\ served' = served + 1
  /\ IF duration_minutes <= 0
        \/ ~can_pause_website(load_config(config_file), url, now)
     THEN UNCHANGED <<pc, loc>>
     ELSE /\ loc' = [loc EXCEPT ![t] =
                       [IdleLoc EXCEPT !.op = "pause", !.url = url,
                                       !.dur = duration_minutes]]
          /\ Goto(t, "pause_load")
  /\ UNCHANGED <<now, config_file, hosts, euid, crashed, granted, begun,
                 acked>>
  /\ history_unchanged

\* pause_website, lines 243-257: the registry loaded and the pause registered
pause_load(t) ==
  /\ ~crashed /\ pc[t] = "pause_load"
  /\ loc' = [loc EXCEPT ![t].config =
               register_pause(load_config(config_file), loc[t].url, loc[t].dur, now),
                        ![t].at = now]
  /\ Goto(t, "save")
  /\ UNCHANGED <<now, config_file, hosts, euid, crashed, served, granted,
                 begun, acked>>
  /\ history_unchanged

\* save_config, line 75: open(CONFIG_FILE, 'w') empties the file
save_open(t) ==
  /\ ~crashed /\ pc[t] = "save"
  /\ config_file' = [config_file EXCEPT !.torn = TRUE]
  /\ Goto(t, "save_write")
  /\ UNCHANGED <<now, hosts, euid, loc, crashed, served, granted, begun,
                 acked>>
  /\ history_unchanged

\* Faulty variant of save_write: update_hosts_file called with the registry
\* not written to CONFIG_FILE.
save_write_unsaved(t) ==
  /\ ~crashed /\ pc[t] = "save_write"
  /\ config_file' = [config_file EXCEPT !.torn = FALSE]
  /\ loc' = [loc EXCEPT ![t].websites = loc[t].config.websites,
                        ![t].config = EmptyConfig]
  /\ Goto(t, "update")
  /\ UNCHANGED <<now, hosts, euid, crashed, served, granted, begun, acked>>
  /\ history_unchanged

\* save_config, line 76, and the call of update_hosts_file with
\* config['websites']
save_write(t) ==
  /\ ~crashed /\ pc[t] = "save_write"
  /\ config_file' = saved(loc[t].config)
  /\ loc' = [loc EXCEPT ![t].websites = loc[t].config.websites,
                        ![t].config = EmptyConfig]
  /\ Goto(t, "update")
  /\ UNCHANGED <<now, hosts, euid, crashed, served, granted, begun, acked>>
  /\ history_unchanged

\* run_blocker, lines 282-287: the registry loaded; nothing more when it
\* holds no website
load_websites ==
  LET config == load_config(config_file)
  IN IF config.websites = <<>>
     THEN UNCHANGED <<pc, loc>>
     ELSE /\ loc' = [loc EXCEPT !["timer"] =
                       [IdleLoc EXCEPT !.op = "tick", !.websites = config.websites]]
          /\ Goto("timer", "update")

\* A pass of the loop of run_blocker begins, one of the MaxRequests of a run.
timer_load ==
  /\ ~crashed /\ pc["timer"] = "idle" /\ served < MaxRequests
  /\ served' = served + 1
  /\ load_websites
  /\ UNCHANGED <<now, config_file, hosts, euid, crashed, granted, begun, acked>>
  /\ history_unchanged

\* update_hosts_file, lines 130-138: the uid checked and chattr -i run
uh_chattr_minus(t, done) ==
  /\ ~crashed /\ pc[t] = "update"
  /\ IF euid = RootUid /\ done
     THEN /\ hosts' = [hosts EXCEPT !.immutable = FALSE]
          /\ Goto(t, "read")
          /\ UNCHANGED <<loc, granted, acked>>
     ELSE /\ finish(t)
          /\ UNCHANGED hosts
  /\ UNCHANGED <<now, config_file, euid, crashed, served, begun>>
  /\ history_unchanged

\* Faulty variant of uh_read: an error raised is caught nowhere and ends the
\* thread.
uh_read_fatal(t, raised) ==
  /\ ~crashed /\ pc[t] = "read"
  /\ IF raised
     THEN /\ Goto(t, "dead")
          /\ UNCHANGED <<loc, granted, acked>>
     ELSE /\ loc' = [loc EXCEPT ![t].new_content =
                       strip_managed(readlines(hosts.content))]
          /\ Goto(t, "blocks")
          /\ UNCHANGED <<granted, acked>>
  /\ UNCHANGED <<now, config_file, hosts, euid, crashed, served, begun>>
  /\ history_unchanged

\* update_hosts_file, lines 140-153: the file read and its managed section
\* dropped; an error raised ends the call at line 180
uh_read(t, raised) ==
  /\ ~crashed /\ pc[t] = "read"
  /\ IF raised
     THEN finish(t)
     ELSE /\ loc' = [loc EXCEPT ![t].new_content =
                       strip_managed(readlines(hosts.content))]
          /\ Goto(t, "blocks")
          /\ UNCHANGED <<granted, acked>>
  /\ UNCHANGED <<now, config_file, hosts, euid, crashed, served, begun>>
  /\ history_unchanged

\* update_hosts_file, lines 155-166: every site checked against the registry
\* on disk and the clock, and the section put together
uh_blocks(t) ==
  /\ ~crashed /\ pc[t] = "blocks"
  /\ loc' = [loc EXCEPT ![t].new_content =
               assemble(loc[t].new_content,
                        build_blocks(loc[t].websites, load_config(config_file), now))]
  /\ Goto(t, "open")
  /\ UNCHANGED <<now, config_file, hosts, euid, crashed, served, granted,
                 begun, acked>>
  /\ history_unchanged

\* update_hosts_file, line 168: open(HOSTS_FILE, 'w') empties the file, or
\* raises when another thread has made it immutable again
uh_open(t) ==
  /\ ~crashed /\ pc[t] = "open"
  /\ IF hosts.immutable
     THEN /\ finish(t)
          /\ UNCHANGED hosts
     ELSE /\ hosts' = [hosts EXCEPT !.content = <<>>]
          /\ Goto(t, "write")
          /\ UNCHANGED <<loc, granted, acked>>
  /\ UNCHANGED <<now, config_file, euid, crashed, served, begun>>
  /\ history_unchanged

\* update_hosts_file, line 169: the new content written and the file closed
uh_write(t) ==
  /\ ~crashed /\ pc[t] = "write"
  /\ hosts' = [hosts EXCEPT !.content = Flatten(loc[t].new_content)]
  /\ Goto(t, "chattr_plus")
  /\ UNCHANGED <<now, config_file, euid, loc, crashed, served, granted,
                 begun, acked>>
  /\ history_unchanged

\* update_hosts_file, lines 171-178: chattr +i run, and the caller's answer
uh_chattr_plus(t, done) ==
  /\ ~crashed /\ pc[t] = "chattr_plus"
  /\ hosts' = [hosts EXCEPT !.immutable = done \/ hosts.immutable]
  /\ finish(t)
  /\ UNCHANGED <<now, config_file, euid, crashed, served, begun>>
  /\ history_unchanged

InUpdate == {"update", "read", "blocks", "open", "write", "chattr_plus"}

\* The process is killed while a thread is in update_hosts_file.
crash ==
  /\ ~crashed
  /\ \E t \in Threads : pc[t] \in InUpdate
  /\ crashed' = TRUE
  /\ pc' = [t \in Threads |-> "dead"]
  /\ loc' = [t \in Threads |-> IdleLoc]
  /\ UNCHANGED <<now, config_file, hosts, euid, served, granted, begun, acked>>
  /\ history_unchanged

Next ==
  \/ \E t \in Handlers, w \in ThreadWebsites : add_load(t, w)
  \/ \E t \in Handlers : remove_load(t, "a")
  \/ \E t \in Handlers : pause_check(t, "a", 5)
  \/ \E t \in Handlers : pause_load(t) \/ save_open(t) \/ save_write(t)
  \/ timer_load
  \/ \E t \in Threads, b \in BOOLEAN :
       uh_chattr_minus(t, b) \/ uh_read(t, b) \/ uh_chattr_plus(t, b)
  \/ \E t \in Threads : uh_blocks(t) \/ uh_open(t) \/ uh_write(t)
  \/ crash

Spec == Init /\ [][Next]_vars

\* ------------------------------------------------------------ the loop alone

\* The background thread on its own, pass after pass without end, with
\* every failure a pass can meet.

\* A pass of the loop of run_blocker begins, after the sleep of line 291.
loop_load ==
  /\ ~crashed /\ pc["timer"] = "idle"
  /\ tick' = ~tick
  /\ load_websites
  /\ UNCHANGED <<now, config_file, hosts, euid, crashed, served, granted,
                 begun, acked, last, hosts0>>

\* update_hosts_file, line 169, for a file within the model's length
loop_write ==
  /\ Len(Flatten(loc["timer"].new_content)) <= MaxFileLen
  /\ uh_write("timer")

\* update_hosts_file, line 169: writelines raises (no space left on the
\* device, as for every file beyond the model's length), nothing of the new
\* content is in the file, and the call ends at line 180
uh_write_raises(t) ==
  /\ ~crashed /\ pc[t] = "write"
  /\ finish(t)
  /\ UNCHANGED <<now, config_file, hosts, euid, crashed, served, begun>>
  /\ history_unchanged

\* The steps of the background thread.
LoopStep ==
  \/ loop_load
  \/ \E b \in BOOLEAN : uh_chattr_minus("timer", b)
  \/ \E b \in BOOLEAN : uh_read("timer", b)
  \/ uh_blocks("timer")
  \/ uh_open("timer")
  \/ loop_write
  \/ uh_write_raises("timer")
  \/ \E b \in BOOLEAN : uh_chattr_plus("timer", b)

\* CONFIG_FILE as the loop may find it: a registry, or a file that does not
\* parse.
LoopConfigFiles ==
  {saved(c) : c \in InitialConfigs} \cup {[torn |-> TRUE, data |-> EmptyConfig]}

InitLoop ==
  /\ now = InitialTime
  /\ config_file \in LoopConfigFiles
  /\ hosts \in [content : InitialHosts, immutable : {TRUE}]
  /\ euid \in {RootUid, 1000}
  /\ InitCommon

NextLoop ==
  \/ LoopStep
  \/ \E t \in Instants : advance(t)

\* The thread is scheduled again and again, and time.sleep(60) returns.
SpecLoop == InitLoop /\ [][NextLoop]_vars /\ WF_vars(LoopStep)

\* ------------------------------------------------------------ pause requests only

\* A registry of one target, and pause requests of every url and duration.
InitQuota ==
  /\ now = InitialTime
  /\ config_file = saved(append_website(EmptyConfig,
                      Website("a", TRUE, 9 * MinutesPerHour, 17 * MinutesPerHour)))
  /\ hosts = [content |-> <<Text(LOCALHOST), NL>>, immutable |-> FALSE]
  /\ euid = RootUid
  /\ InitCommon

\* How the calls of update_hosts_file go in the runs of pause requests.
QuotaOutcomes == {"ok", "raises"}

NextQuota ==
  \/ \E u \in Urls, d \in PauseDurations, o \in QuotaOutcomes :
       pause_website(u, d, o)
  \/ \E t \in Instants : advance(t)

SpecQuota == InitQuota /\ [][NextQuota]_vars

\* ------------------------------------------------------------ the window predicate

\* Minutes of the day the window model draws from: every MinuteStride-th,
\* and the ends of the hours and of the day.
SampleMinutes ==
  {m \in 0..(MinutesPerDay - 1) : m % MinuteStride = 0}
    \cup {59, 60, 61, 599, 600, 601, 659, 660, 1380, 1438, 1439}

\* One enabled target with any sampled window, at any sampled minute.
InitWindow ==
  /\ now \in SampleMinutes
  /\ \E s \in SampleMinutes, e \in SampleMinutes :
       config_file = saved(append_website(EmptyConfig, Website("a", TRUE, s, e)))
  /\ hosts = [content |-> <<Text(LOCALHOST), NL>>, immutable |-> FALSE]
  /\ euid = RootUid
  /\ InitCommon

NextWindow == run_blocker("ok")

SpecWindow == InitWindow /\ [][NextWindow]_vars

\* ------------------------------------------------------------ vocabulary of the properties

IsStart(line) == line = <<Text(START_MARK), NL>>
IsEnd(line) == line = <<Text(END_MARK), NL>>

\* Line i is a start delimiter or follows one with no end delimiter before it.
AfterStart(ls, i) ==
  \E j \in 1..i : IsStart(ls[j]) /\ \A k \in (j + 1)..i : ~IsEnd(ls[k])

Pick(ls, keep(_)) ==
  LET F[i \in 0..Len(ls)] ==
        IF i = 0 THEN <<>>
        ELSE IF keep(i) THEN Append(F[i - 1], ls[i]) ELSE F[i - 1]
  IN F[Len(ls)]

\* The lines of a file outside the delimiters, in order.
OutsideLines(content) ==
  LET ls == readlines(content)
  IN Pick(ls, LAMBDA i : ~IsEnd(ls[i]) /\ ~AfterStart(ls, i))

\* The lines of a file between the delimiters, in order.
ManagedLines(content) ==
  LET ls == readlines(content)
  IN Pick(ls, LAMBDA i : ~IsStart(ls[i]) /\ ~IsEnd(ls[i]) /\ AfterStart(ls, i))

Count(ls, x) == Cardinality({i \in 1..Len(ls) : ls[i] = x})

BareLine(url) == <<BareEntry(url), NL>>
WwwLine(url) == <<WwwEntry(url), NL>>

\* Minutes since midnight of a stored "HH:MM".
MinutesOf(ds) == (ds[1] * 10 + ds[2]) * MinutesPerHour + ds[3] * 10 + ds[4]

\* The window predicate on minutes since midnight.
InWindow(start, end, cur) ==
  IF start <= end THEN start <= cur /\ cur <= end
  ELSE cur >= start \/ cur <= end

SiteInWindow(w, t) ==
  InWindow(MinutesOf(w.startTime), MinutesOf(w.endTime), t % MinutesPerDay)

Registry == config_file.data
HasPause(url) == url \in DOMAIN Registry.pauses
ActivePause(url) == HasPause(url) /\ now < Registry.pauses[url].pause_until

\* C4: a successful reconciliation that follows a successful one, with the
\* registry and the time unchanged, leaves the file as it was.
C4_Idempotent ==
  [][(last.ok /\ last'.ok /\ config_file' = config_file /\ now' = now)
       => hosts'.content = hosts.content]_vars

\* C5: the lines outside the delimiters are those of the start, line for line.
C5_ForeignPreserved ==
  last.ok => OutsideLines(hosts.content) = OutsideLines(hosts0)

\* C8: after a successful reconciliation, an enabled target inside its window
\* that has a pause record has no managed line while now < pause_until, and
\* has both of its lines once now >= pause_until.
C8_PauseOverridesAndExpires ==
  last.ok =>
    \A i \in 1..Len(Registry.websites) :
      LET w == Registry.websites[i]
          m == ManagedLines(hosts.content)
      IN (w.enabled /\ SiteInWindow(w, now) /\ HasPause(w.url)) =>
           IF now < Registry.pauses[w.url].pause_until
           THEN Count(m, BareLine(w.url)) = 0 /\ Count(m, WwwLine(w.url)) = 0
           ELSE Count(m, BareLine(w.url)) >= 1 /\ Count(m, WwwLine(w.url)) >= 1

\* C8 witness: a pass of the background loop has put back both lines of an
\* enabled target inside its window whose pause has run out.
C8_Witness ==
  /\ last.ok /\ last.by = "timer"
  /\ \E i \in 1..Len(Registry.websites) :
       LET w == Registry.websites[i]
       IN /\ w.enabled /\ SiteInWindow(w, now) /\ HasPause(w.url)
          /\ now >= Registry.pauses[w.url].pause_until
          /\ Count(ManagedLines(hosts.content), BareLine(w.url)) = 1
          /\ Count(ManagedLines(hosts.content), WwwLine(w.url)) = 1

Blocked(w) == w.enabled /\ ~ActivePause(w.url) /\ SiteInWindow(w, now)

\* C10: after a successful reconciliation the managed section holds exactly
\* the two lines of every target that is enabled, not paused and inside its
\* window, and no line of any other target or url.
C10_ManagedExact ==
  last.ok =>
    LET m == ManagedLines(hosts.content)
        ws == Registry.websites
    IN /\ \A i \in 1..Len(ws) :
            IF Blocked(ws[i])
            THEN Count(m, BareLine(ws[i].url)) = 1 /\ Count(m, WwwLine(ws[i].url)) = 1
            ELSE Count(m, BareLine(ws[i].url)) = 0 /\ Count(m, WwwLine(ws[i].url)) = 0
       /\ \A k \in 1..Len(m) :
            \E i \in 1..Len(ws) :
              Blocked(ws[i]) /\ m[k] \in {BareLine(ws[i].url), WwwLine(ws[i].url)}

\* C1: no url has more than MAX_DAILY_PAUSES pauses or more than
\* MAX_DAILY_PAUSE_MINUTES minutes registered for any date.
C1_QuotaInvariant ==
  \A u \in DOMAIN Registry.pauses :
    LET p == Registry.pauses[u]
    IN /\ \A d \in DOMAIN p.daily_count : p.daily_count[d] <= MAX_DAILY_PAUSES
       /\ \A d \in DOMAIN p.daily_minutes :
            p.daily_minutes[d] <= MAX_DAILY_PAUSE_MINUTES

\* C9: for an enabled target without an active pause, check_block_needed
\* answers as the window predicate on minutes since midnight does.
C9_WindowPredicate ==
  \A i \in 1..Len(Registry.websites) :
    LET w == Registry.websites[i]
    IN (w.enabled /\ ~ActivePause(w.url)) =>
         (check_block_needed(w, Registry, now) <=> SiteInWindow(w, now))

\* C9 witness: a window that crosses midnight, the clock at its last minute,
\* and the background loop has written the target's lines.
C9_Witness ==
  /\ last.ok
  /\ \E i \in 1..Len(Registry.websites) :
       LET w == Registry.websites[i]
       IN /\ MinutesOf(w.startTime) > MinutesOf(w.endTime)
          /\ now % MinutesPerDay = MinutesOf(w.endTime)
          /\ check_block_needed(w, Registry, now)
          /\ Count(ManagedLines(hosts.content), BareLine(w.url)) = 1

\* C2: however pause requests interleave, no more than MAX_DAILY_PAUSES of
\* them are granted to a url for one date, and its registered count for the
\* date never exceeds MAX_DAILY_PAUSES.
C2_AtomicCheckAndIncrement ==
  \A u \in Urls :
    /\ \A d \in DOMAIN granted[u] : granted[u][d] <= MAX_DAILY_PAUSES
    /\ u \in DOMAIN Registry.pauses =>
         \A d \in DOMAIN Registry.pauses[u].daily_count :
           Registry.pauses[u].daily_count[d] <= MAX_DAILY_PAUSES

RegisteredUrls == {Registry.websites[i].url : i \in 1..Len(Registry.websites)}
Quiet == ~crashed /\ \A t \in Handlers : pc[t] = "idle"

\* C3: once the requests have been answered, the registry holds every
\* website whose add was answered with success (no remove of it begun),
\* none whose remove was (no add of it begun), and counts every pause granted.
C3_NoLostUpdate ==
  Quiet =>
    \A u \in Urls :
      /\ ([op |-> "add", url |-> u] \in acked
            /\ [op |-> "remove", url |-> u] \notin begun) => u \in RegisteredUrls
      /\ ([op |-> "remove", url |-> u] \in acked
            /\ [op |-> "add", url |-> u] \notin begun) => u \notin RegisteredUrls
      /\ \A d \in DOMAIN granted[u] :
           /\ u \in DOMAIN Registry.pauses
           /\ Get(Registry.pauses[u].daily_count, d, 0) >= granted[u][d]

\* Every line of the file at the start that lay outside the delimiters is
\* still in the file, as often as it was.
ForeignKept ==
  LET before == OutsideLines(hosts0)
      after == readlines(hosts.content)
  IN \A i \in 1..Len(before) : Count(after, before[i]) >= Count(before, before[i])

\* The start delimiter has its end delimiter, and every blocked url both lines.
SectionWhole ==
  LET ls == readlines(hosts.content)
  IN /\ Count(ls, <<Text(START_MARK), NL>>) = Count(ls, <<Text(END_MARK), NL>>)
     /\ \A u \in Urls : Count(ls, BareLine(u)) = Count(ls, WwwLine(u))

\* C6: after a crash the file misses no foreign line and holds no truncated
\* section.
C6_AtomicReplace == crashed => ForeignKept /\ SectionWhole

\* C7: at most one thread is between its chattr -i and its chattr +i.
C7_ReconciliationsSerialized ==
  Cardinality({t \in Threads :
                 pc[t] \in {"read", "blocks", "open", "write", "chattr_plus"}}) <= 1

\* A delimiter, or an entry of the managed section, anywhere in a file.
HasMarker(content) ==
  \E i \in 1..Len(content) : content[i] \in {Text(START_MARK), Text(END_MARK)}
HasEntry(content) ==
  \E i \in 1..Len(content) : content[i].k \in {"bare", "www"}

NoneBlocked ==
  \A i \in 1..Len(Registry.websites) : ~Blocked(Registry.websites[i])

\* C11: after a successful reconciliation in which no target is blocked the
\* file holds no start delimiter, no end delimiter and no managed entry.
C11_EmptyResult ==
  (last.ok /\ NoneBlocked) => ~HasMarker(hosts.content) /\ ~HasEntry(hosts.content)

\* C11 witness: a file that started with a managed section has been
\* reconciled with no target blocked, and the section is gone.
C11_Witness ==
  /\ last.ok /\ NoneBlocked
  /\ HasMarker(hosts0) /\ HasEntry(hosts0)
  /\ ~HasMarker(hosts.content)

\* C12: no two entries of the persisted registry have the same url.
C12_UrlUnique ==
  \A i, j \in 1..Len(Registry.websites) :
    Registry.websites[i].url = Registry.websites[j].url => i = j

\* The pauses and the minutes a registry counts for a url on a day.
CountOf(config, url, day) ==
  IF url \in DOMAIN config.pauses
  THEN Get(config.pauses[url].daily_count, day, 0) ELSE 0
MinutesCounted(config, url, day) ==
  IF url \in DOMAIN config.pauses
  THEN Get(config.pauses[url].daily_minutes, day, 0) ELSE 0

\* The quota of a url for the date of now is not used up.
QuotaLeft(url) ==
  /\ CountOf(Registry, url, date_of(now)) < MAX_DAILY_PAUSES
  /\ MinutesCounted(Registry, url, date_of(now)) < MAX_DAILY_PAUSE_MINUTES

\* C13: a pause request of a positive duration is granted exactly when the
\* url's count for the date of now is below MAX_DAILY_PAUSES and its minutes
\* for that date are below MAX_DAILY_PAUSE_MINUTES, whatever earlier dates
\* hold; a granted request adds one to the count and its duration to the
\* minutes of that date, a denied one changes nothing.
C13_GrantDecision ==
  [][\A u \in Urls, d \in PauseDurations, o \in QuotaOutcomes :
       (d > 0 /\ pause_website(u, d, o)) =>
         /\ last'.called <=> QuotaLeft(u)
         /\ IF last'.called
            THEN /\ CountOf(config_file'.data, u, date_of(now))
                      = CountOf(Registry, u, date_of(now)) + 1
                 /\ MinutesCounted(config_file'.data, u, date_of(now))
                      = MinutesCounted(Registry, u, date_of(now)) + d
            ELSE config_file' = config_file]_vars

\* C13 witness: url a used its two pauses and its 15 minutes on day 0, and a
\* request on day 1 has been granted.
C13_Witness ==
  /\ last.by = "request" /\ last.called
  /\ date_of(now) = 1
  /\ CountOf(Registry, "a", 0) = MAX_DAILY_PAUSES
  /\ MinutesCounted(Registry, "a", 0) = MAX_DAILY_PAUSE_MINUTES
  /\ CountOf(Registry, "a", 1) = 1

\* C15: every pass of the background loop calls update_hosts_file on the
\* registry it loaded.
C15_TimerReconciles == last.by = "timer" => last.called

\* A request or a pass of the loop whose call of update_hosts_file goes as o.
CallsUpdate(o) ==
  /\ \/ \E w \in NewWebsites : add_website(w, o)
     \/ \E u \in Urls : remove_website(u, o)
     \/ \E u \in Urls, d \in PauseDurations : pause_website(u, d, o)
     \/ run_blocker(o)
  /\ last'.called

\* C17: a call of update_hosts_file without root privilege, or whose
\* chattr -i fails, returns False and leaves the content of the file as it was.
C17_PrivilegeErrorsNeverWrite ==
  [][\A o \in Outcomes :
       ((euid # RootUid \/ o = "chattr_minus_fails") /\ CallsUpdate(o))
         => (~last'.ok /\ hosts'.content = hosts.content)]_vars

\* C17 witness: a call without root privilege has failed with a target to
\* block, and the file holds no entry.
C17_Witness ==
  /\ last.called /\ ~last.ok /\ euid # RootUid
  /\ ~NoneBlocked
  /\ hosts.content = hosts0 /\ ~HasEntry(hosts.content)

\* C18: a pause request with a duration of zero or less, or for a url that
\* is not in the registry, is refused and leaves CONFIG_FILE as it was.
C18_InvalidPauseRejected ==
  [][\A u \in Urls, d \in PauseDurations, o \in QuotaOutcomes :
       ((d <= 0 \/ u \notin RegisteredUrls) /\ pause_website(u, d, o))
         => (~last'.called /\ config_file' = config_file)]_vars

\* C20: a call of update_hosts_file that got past chattr -i leaves the file
\* immutable when it returns, also when reading or writing raised.
C20_TamperProtectionRestored ==
  [][\A o \in {"ok", "raises"} :
       (euid = RootUid /\ CallsUpdate(o)) => hosts'.immutable]_vars

UrlsOf(websites) == {websites[i].url : i \in 1..Len(websites)}

\* The registry a request thread is about to save holds the request's change.
Mutated(t) ==
  CASE loc[t].op = "add" -> loc[t].url \in UrlsOf(loc[t].config.websites)
    [] loc[t].op = "remove" -> loc[t].url \notin UrlsOf(loc[t].config.websites)
    [] loc[t].op = "pause" ->
         /\ CountOf(loc[t].config, loc[t].url, date_of(loc[t].at)) >= 1
         /\ loc[t].config.pauses[loc[t].url].pause_until = loc[t].at + loc[t].dur
    [] OTHER -> FALSE

\* C14: a request thread enters update_hosts_file with CONFIG_FILE holding,
\* whole, the registry with the request's change, and with the target list of
\* that registry as argument; and it answers an add, a remove or a granted
\* pause only from within update_hosts_file, hence after both.
C14_PersistThenReconcile ==
  [][\A t \in Handlers :
       /\ (pc[t] \notin InUpdate /\ pc'[t] \in InUpdate) =>
            /\ Mutated(t)
            /\ config_file' = saved(loc[t].config)
            /\ loc'[t].websites = loc[t].config.websites
       /\ (pc[t] # "idle" /\ pc'[t] = "idle"
             /\ loc[t].op \in {"add", "remove", "pause"}) =>
            pc[t] \in InUpdate]_vars

\* C14 witness: the add of a has been answered with the registry holding a
\* and the file holding the lines of a.
C14_Witness ==
  /\ [op |-> "add", url |-> "a"] \in acked
  /\ Quiet
  /\ "a" \in RegisteredUrls
  /\ Count(ManagedLines(hosts.content), BareLine("a")) = 1

\* C19: a url that has a pause record in CONFIG_FILE keeps one, and its
\* count and its minutes of no date ever go down.
C19_PauseHistoryKept ==
  [][\A u \in DOMAIN Registry.pauses :
       /\ u \in DOMAIN config_file'.data.pauses
       /\ \A d \in DOMAIN Registry.pauses[u].daily_count :
            CountOf(config_file'.data, u, d) >= CountOf(Registry, u, d)
       /\ \A d \in DOMAIN Registry.pauses[u].daily_minutes :
            MinutesCounted(config_file'.data, u, d) >= MinutesCounted(Registry, u, d)]_vars

\* C16: whatever the passes of the background loop meet, a pass is always
\* followed by another one.
C16_LoopSurvives == (tick ~> ~tick) /\ (~tick ~> tick)

\* C16 witness: a pass has begun while the file is left mutable by an
\* earlier pass of which the reading or the writing raised, or chattr +i failed.
C16_Witness ==
  /\ pc["timer"] = "update" /\ tick
  /\ euid = RootUid /\ ~hosts.immutable

====
